---- MODULE Spec2Model ----
(***************************************************************************)
(* Model of src/server.js: the POST /execute handler of the code runner,   *)
(* its helper pullImage, and the container runtime it drives through       *)
(* dockerode (list images, pull, create, attach, start, wait, remove).     *)
(*                                                                         *)
(* One action is one run of handler code between two awaits (or one        *)
(* callback).  The runtime is an external service: each call may succeed   *)
(* or fail, and the container emits output and exits on its own schedule.  *)
(***************************************************************************)
EXTENDS Integers, Sequences, FiniteSets, TLC

\* ------------------------------------------------------------- bounds
NumRequests == 2      \* requests in flight at once (SpecConc)
MaxChunks == 2        \* output chunks one container emits

Requests == 1..NumRequests
ContainerIds == 1..NumRequests     \* a request creates at most one container
NoContainer == 0                   \* `let container;` still undefined

\* ------------------------------------------------------ JavaScript values
\* A JavaScript value: its type tag and a printable payload.
JSV(t, v) == [t |-> t, v |-> v]
Undefined == JSV("undefined", "")
Null == JSV("null", "")
Str(s) == JSV("string", s)
Num(n) == JSV("number", n)
Arr(s) == JSV("array", s)          \* the one-element array [s]

\* ToBoolean, as `!x` and `if (x)` apply it.
Truthy(x) ==
    CASE x.t = "undefined" -> FALSE
      [] x.t = "null"      -> FALSE
      [] x.t = "string"    -> x.v # ""
      [] x.t = "number"    -> x.v # "0"
      [] OTHER             -> TRUE

\* ToPropertyKey, as `obj[x]` applies it: a one-element array prints as its
\* element, undefined and null print as their names.
ToPropertyKey(x) ==
    CASE x.t = "undefined" -> "undefined"
      [] x.t = "null"      -> "null"
      [] OTHER             -> x.v

\* Properties every object literal inherits from Object.prototype.
ObjectPrototypeKeys == {"constructor", "toString", "__proto__"}

\* languageImageMap[language]
LanguageImageMap(language) ==
    LET key == ToPropertyKey(language) IN
    CASE key = "python"               -> Str("python:3.9-slim")
      [] key = "javascript"           -> Str("node:18-alpine")
      [] key \in ObjectPrototypeKeys  -> JSV("function", key)
      [] OTHER                        -> Undefined

\* language === 'python' ? ['python', '-c', code] : ['node', '-e', code]
Cmd(language) == IF language = Str("python") THEN "python -c" ELSE "node -e"

\* `!language || !code`
MissingFieldsMut(language, code) == ~Truthy(language) /\ ~Truthy(code)
MissingFields(language, code) == ~Truthy(language) \/ ~Truthy(code)

\* `waitResult.StatusCode === null`
IsTimeoutMut(statusCode) == statusCode = Null \/ statusCode # Num("0")
IsTimeout(statusCode) == statusCode = Null

\* ------------------------------------------------------------- text
\* Bytes a container writes: "a" and newline.
Bytes == {97, 10}
Chunks == {<<b>> : b \in Bytes}

Utf8Char(b) == CASE b = 97 -> "a" [] b = 32 -> " " [] b = 10 -> "\n" [] OTHER -> "?"

\* chunk.toString('utf8'): the text of a chunk, as a sequence of characters.
ToStringUtf8(chunk) == [i \in 1..Len(chunk) |-> Utf8Char(chunk[i])]

WhiteSpace == {" ", "\n"}

RECURSIVE TrimStart(_)
TrimStart(s) ==
    IF s = <<>> THEN <<>>
    ELSE IF Head(s) \in WhiteSpace THEN TrimStart(Tail(s)) ELSE s

RECURSIVE TrimEnd(_)
TrimEnd(s) ==
    IF s = <<>> THEN <<>>
    ELSE IF s[Len(s)] \in WhiteSpace THEN TrimEnd(SubSeq(s, 1, Len(s) - 1)) ELSE s

\* String.prototype.trim
Trim(s) == TrimEnd(TrimStart(s))

RECURSIVE Concat(_)
Concat(chunks) ==
    IF chunks = <<>> THEN <<>> ELSE ToStringUtf8(Head(chunks)) \o Concat(Tail(chunks))

\* ------------------------------------------------------------- responses
NoResponse == [status |-> 0, error |-> "", output |-> <<>>]
ErrorResponse(status, msg) == [status |-> status, error |-> msg, output |-> <<>>]
OutputResponse(out) == [status |-> 200, error |-> "", output |-> out]

\* error.message || 'An error occurred during execution.'
CatchMessage(msg) == IF msg # "" THEN msg ELSE "An error occurred during execution."

\* Messages of the errors the runtime raises (one of them empty).
RuntimeErrors == {"docker error", ""}

\* ------------------------------------------------------------- inputs
Languages ==
    {Undefined, Str(""), Str("python"), Str("javascript"), Str("ruby"),
     Str("constructor"), Arr("python")}
Codes == {Undefined, Str(""), Str("print(1)")}

\* ------------------------------------------------------------- state
VARIABLES
    pc,         \* per request: the await the handler is suspended at ("unused":
                \* the request never arrives, "idle": it has not arrived yet)
    req,        \* per request: req.body
    container,  \* per request: the handler's `container` variable
    output,     \* per request: the handler's `output` string
    attach,     \* per request: the attach call: none, pending, open, failed
    streamPos,  \* per request: next chunk the attached stream delivers
    response,   \* per request: the HTTP response sent
    trace,      \* per request: runtime calls returned and responses sent
    images,     \* runtime: images present locally
    cstate,     \* runtime, per container id: absent, created, running, exited, removed
    exitCode,   \* runtime, per container id: the exit status
    emitted     \* runtime, per container id: chunks written so far

vars == <<pc, req, container, output, attach, streamPos, response, trace,
          images, cstate, exitCode, emitted>>

handlerVars == <<pc, req, container, output, attach, streamPos, response, trace>>
runtimeVars == <<images, cstate, exitCode, emitted>>

ImageName(r) == LanguageImageMap(req[r].language)

\* The runtime can act on an image only when it is named by a string: pull
\* parses the name, and createContainer's JSON body drops any other value.
NamesImage(image) == image.t = "string"

\* The interpreter Cmd invokes exists in the image.
HasInterpreter(image, cmd) ==
    \/ image = Str("python:3.9-slim") /\ cmd = "python -c"
    \/ image = Str("node:18-alpine") /\ cmd = "node -e"

\* The runtime's container list.
ContainerList == {c \in ContainerIds : cstate[c] \in {"created", "running", "exited"}}

\* One request arrives; the runtime holds any of the two images.
Init ==
    /\ pc = [r \in Requests |-> IF r = 1 THEN "idle" ELSE "unused"]
    /\ req = [r \in Requests |-> [language |-> Undefined, code |-> Undefined]]
    /\ container = [r \in Requests |-> NoContainer]
    /\ output = [r \in Requests |-> <<>>]
    /\ attach = [r \in Requests |-> "none"]
    /\ streamPos = [r \in Requests |-> 0]
    /\ response = [r \in Requests |-> NoResponse]
    /\ trace = [r \in Requests |-> <<>>]
    /\ images \in SUBSET {Str("python:3.9-slim"), Str("node:18-alpine")}
    /\ cstate = [c \in ContainerIds |-> "absent"]
    /\ exitCode = [c \in ContainerIds |-> 0]
    /\ emitted = [c \in ContainerIds |-> <<>>]

\* --------------------------------------------------- handler fragments
\* catch: respond 500; finally: call remove() when a container was created.
CatchFinally(r, event, msg) ==
    /\ response' = [response EXCEPT ![r] = ErrorResponse(500, CatchMessage(msg))]
    /\ IF container[r] # NoContainer
       THEN /\ pc' = [pc EXCEPT ![r] = "remove"]
            /\ trace' = [trace EXCEPT ![r] = @ \o <<event, "respond:500", "remove:call">>]
       ELSE /\ pc' = [pc EXCEPT ![r] = "done"]
            /\ trace' = [trace EXCEPT ![r] = @ \o <<event, "respond:500">>]

\* res.status(200).json({output: output.trim()}); finally: call remove().
RespondFinally(r, event) ==
    /\ response' = [response EXCEPT ![r] = OutputResponse(Trim(output[r]))]
    /\ pc' = [pc EXCEPT ![r] = "remove"]
    /\ trace' = [trace EXCEPT ![r] = @ \o <<event, "respond:200", "remove:call">>]

\* ------------------------------------------------------------- actions
\* The handler up to its first await: validation, then pullImage's listImages.
Receive(r, language, code) ==
    /\ pc[r] = "idle"
    /\ req' = [req EXCEPT ![r] = [language |-> language, code |-> code]]
    /\ IF MissingFields(language, code)
       THEN /\ response' = [response EXCEPT ![r] =
                               ErrorResponse(400, "Language and code are required.")]
            /\ pc' = [pc EXCEPT ![r] = "done"]
            /\ trace' = [trace EXCEPT ![r] = @ \o <<"respond:400">>]
       ELSE IF ~Truthy(LanguageImageMap(language))
       THEN /\ response' = [response EXCEPT ![r] =
                               ErrorResponse(400, "Unsupported language.")]
            /\ pc' = [pc EXCEPT ![r] = "done"]
            /\ trace' = [trace EXCEPT ![r] = @ \o <<"respond:400">>]
       ELSE /\ response' = response
            /\ pc' = [pc EXCEPT ![r] = "listImages"]
            /\ trace' = [trace EXCEPT ![r] = @ \o <<"list:call">>]
    /\ UNCHANGED <<container, output, attach, streamPos>>
    /\ UNCHANGED runtimeVars

\* listImages returned a non-empty list: no pull, createContainer is called.
ListImagesFound(r) ==
    /\ pc[r] = "listImages"
    /\ ImageName(r) \in images \/ ~NamesImage(ImageName(r))
    /\ pc' = [pc EXCEPT ![r] = "createContainer"]
    /\ trace' = [trace EXCEPT ![r] = @ \o <<"list:found", "create:call">>]
    /\ UNCHANGED <<req, container, output, attach, streamPos, response>>
    /\ UNCHANGED runtimeVars

\* listImages returned []: docker.pull is called.
ListImagesEmpty(r) ==
    /\ pc[r] = "listImages"
    /\ ImageName(r) \notin images
    /\ pc' = [pc EXCEPT ![r] = "pull"]
    /\ trace' = [trace EXCEPT ![r] = @ \o <<"list:empty", "pull:call">>]
    /\ UNCHANGED <<req, container, output, attach, streamPos, response>>
    /\ UNCHANGED runtimeVars

ListImagesFail(r, msg) ==
    /\ pc[r] = "listImages"
    /\ CatchFinally(r, "list:failed", msg)
    /\ UNCHANGED <<req, container, output, attach, streamPos>>
    /\ UNCHANGED runtimeVars

\* docker.pull returned its progress stream: followProgress is awaited.
PullStream(r) ==
    /\ pc[r] = "pull"
    /\ NamesImage(ImageName(r))
    /\ pc' = [pc EXCEPT ![r] = "followProgress"]
    /\ trace' = [trace EXCEPT ![r] = @ \o <<"pull:stream">>]
    /\ UNCHANGED <<req, container, output, attach, streamPos, response>>
    /\ UNCHANGED runtimeVars

PullFail(r, msg) ==
    /\ pc[r] = "pull"
    /\ CatchFinally(r, "pull:failed", msg)
    /\ UNCHANGED <<req, container, output, attach, streamPos>>
    /\ UNCHANGED runtimeVars

\* followProgress called back without err: the image is now present.
FollowProgressOk(r) ==
    /\ pc[r] = "followProgress"
    /\ images' = images \cup {ImageName(r)}
    /\ pc' = [pc EXCEPT ![r] = "createContainer"]
    /\ trace' = [trace EXCEPT ![r] = @ \o <<"pull:done", "create:call">>]
    /\ UNCHANGED <<req, container, output, attach, streamPos, response>>
    /\ UNCHANGED <<cstate, exitCode, emitted>>

\* A plausible slip: the progress callback resolves whatever err is.
FollowProgressErrMut(r, msg) ==
    /\ pc[r] = "followProgress"
    /\ pc' = [pc EXCEPT ![r] = "createContainer"]
    /\ trace' = [trace EXCEPT ![r] = @ \o <<"pull:failed", "create:call">>]
    /\ UNCHANGED <<req, container, output, attach, streamPos, response>>
    /\ UNCHANGED runtimeVars

\* followProgress called back with err: the promise rejects.
FollowProgressErr(r, msg) ==
    /\ pc[r] = "followProgress"
    /\ CatchFinally(r, "pull:failed", msg)
    /\ UNCHANGED <<req, container, output, attach, streamPos>>
    /\ UNCHANGED runtimeVars

\* createContainer resolved: the handler makes logStream and output, calls
\* attach with a callback (the call returns undefined, so its await does not
\* wait for the runtime) and calls start.
CreateOk(r, c) ==
    /\ pc[r] = "createContainer"
    /\ NamesImage(ImageName(r))
    /\ cstate[c] = "absent"
    /\ \A d \in ContainerIds : d < c => cstate[d] # "absent"
    /\ cstate' = [cstate EXCEPT ![c] = "created"]
    /\ container' = [container EXCEPT ![r] = c]
    /\ output' = [output EXCEPT ![r] = <<>>]
    /\ attach' = [attach EXCEPT ![r] = "pending"]
    /\ pc' = [pc EXCEPT ![r] = "start"]
    /\ trace' = [trace EXCEPT ![r] = @ \o <<"create:ok", "attach:call", "start:call">>]
    /\ UNCHANGED <<req, streamPos, response, images, exitCode, emitted>>

CreateFail(r, msg) ==
    /\ pc[r] = "createContainer"
    /\ CatchFinally(r, "create:failed", msg)
    /\ UNCHANGED <<req, container, output, attach, streamPos>>
    /\ UNCHANGED runtimeVars

\* The attach callback with a stream: demuxStream pipes it into logStream.
\* The stream carries what the container writes from now on.
AttachOpen(r) ==
    /\ attach[r] = "pending"
    /\ container[r] \in ContainerList
    /\ attach' = [attach EXCEPT ![r] = "open"]
    /\ streamPos' = [streamPos EXCEPT ![r] = Len(emitted[container[r]]) + 1]
    /\ trace' = [trace EXCEPT ![r] = @ \o <<"attach:open">>]
    /\ UNCHANGED <<pc, req, container, output, response>>
    /\ UNCHANGED runtimeVars

\* The attach callback with err: logged, nothing else.
AttachErr(r) ==
    /\ attach[r] = "pending"
    /\ attach' = [attach EXCEPT ![r] = "failed"]
    /\ trace' = [trace EXCEPT ![r] = @ \o <<"attach:failed">>]
    /\ UNCHANGED <<pc, req, container, output, streamPos, response>>
    /\ UNCHANGED runtimeVars

\* A plausible slip: `output` declared outside the handler, shared by all requests.
DataMut(r) ==
    /\ attach[r] = "open"
    /\ streamPos[r] <= Len(emitted[container[r]])
    /\ output' = [q \in Requests |->
                    output[q] \o ToStringUtf8(emitted[container[r]][streamPos[r]])]
    /\ streamPos' = [streamPos EXCEPT ![r] = @ + 1]
    /\ UNCHANGED <<pc, req, container, attach, response, trace>>
    /\ UNCHANGED runtimeVars

\* logStream's 'data' event: output += chunk.toString('utf8')
Data(r) ==
    /\ attach[r] = "open"
    /\ streamPos[r] <= Len(emitted[container[r]])
    /\ output' = [output EXCEPT ![r] =
                    @ \o ToStringUtf8(emitted[container[r]][streamPos[r]])]
    /\ streamPos' = [streamPos EXCEPT ![r] = @ + 1]
    /\ UNCHANGED <<pc, req, container, attach, response, trace>>
    /\ UNCHANGED runtimeVars

\* container.start() resolved: the container runs Cmd, wait is called.
StartOk(r) ==
    /\ pc[r] = "start"
    /\ HasInterpreter(ImageName(r), Cmd(req[r].language))
    /\ cstate[container[r]] = "created"
    /\ cstate' = [cstate EXCEPT ![container[r]] = "running"]
    /\ pc' = [pc EXCEPT ![r] = "wait"]
    /\ trace' = [trace EXCEPT ![r] = @ \o <<"start:ok", "wait:call">>]
    /\ UNCHANGED <<req, container, output, attach, streamPos, response>>
    /\ UNCHANGED <<images, exitCode, emitted>>

StartFail(r, msg) ==
    /\ pc[r] = "start"
    /\ CatchFinally(r, "start:failed", msg)
    /\ UNCHANGED <<req, container, output, attach, streamPos>>
    /\ UNCHANGED runtimeVars

\* The running container writes a chunk to stdout or stderr.
Emit(c, chunk) ==
    /\ cstate[c] = "running"
    /\ Len(emitted[c]) < MaxChunks
    /\ emitted' = [emitted EXCEPT ![c] = Append(@, chunk)]
    /\ UNCHANGED handlerVars
    /\ UNCHANGED <<images, cstate, exitCode>>

\* The running container's process ends with a status.
Exit(c, code) ==
    /\ cstate[c] = "running"
    /\ cstate' = [cstate EXCEPT ![c] = "exited"]
    /\ exitCode' = [exitCode EXCEPT ![c] = code]
    /\ UNCHANGED handlerVars
    /\ UNCHANGED <<images, emitted>>

\* What the handler does with wait's result.
WaitResult(r, event, statusCode) ==
    IF IsTimeout(statusCode)
    THEN CatchFinally(r, event, "Execution timed out.")
    ELSE RespondFinally(r, event)

\* wait resolved after the container exited: StatusCode is its exit status.
WaitExited(r) ==
    /\ pc[r] = "wait"
    /\ cstate[container[r]] = "exited"
    /\ WaitResult(r, IF exitCode[container[r]] = 0 THEN "wait:exit0" ELSE "wait:exit1",
                  IF exitCode[container[r]] = 0 THEN Num("0") ELSE Num("1"))
    /\ UNCHANGED <<req, container, output, attach, streamPos>>
    /\ UNCHANGED runtimeVars

\* wait resolved while the container still runs (no completion within the
\* 10 s window): StatusCode is null, or absent from the result.
WaitNoStatus(r, statusCode) ==
    /\ pc[r] = "wait"
    /\ cstate[container[r]] = "running"
    /\ WaitResult(r, IF statusCode = Null THEN "wait:null" ELSE "wait:absent", statusCode)
    /\ UNCHANGED <<req, container, output, attach, streamPos>>
    /\ UNCHANGED runtimeVars

WaitFail(r, msg) ==
    /\ pc[r] = "wait"
    /\ CatchFinally(r, "wait:failed", msg)
    /\ UNCHANGED <<req, container, output, attach, streamPos>>
    /\ UNCHANGED runtimeVars

\* container.remove() resolved: the runtime removes a container that is not
\* running (remove is called without force).
RemoveOk(r) ==
    /\ pc[r] = "remove"
    /\ cstate[container[r]] \in {"created", "exited"}
    /\ cstate' = [cstate EXCEPT ![container[r]] = "removed"]
    /\ pc' = [pc EXCEPT ![r] = "done"]
    /\ trace' = [trace EXCEPT ![r] = @ \o <<"remove:ok">>]
    /\ UNCHANGED <<req, container, output, attach, streamPos, response>>
    /\ UNCHANGED <<images, exitCode, emitted>>

\* A plausible slip: the cleanup error is reported to the client.
RemoveFailMut(r) ==
    /\ pc[r] = "remove"
    /\ pc' = [pc EXCEPT ![r] = "done"]
    /\ response' = [response EXCEPT ![r] = ErrorResponse(500, "docker error")]
    /\ trace' = [trace EXCEPT ![r] = @ \o <<"remove:failed", "respond:500">>]
    /\ UNCHANGED <<req, container, output, attach, streamPos>>
    /\ UNCHANGED runtimeVars

\* container.remove() rejected (the container is running, or the runtime
\* failed): logged, nothing else.
RemoveFail(r) ==
    /\ pc[r] = "remove"
    /\ pc' = [pc EXCEPT ![r] = "done"]
    /\ trace' = [trace EXCEPT ![r] = @ \o <<"remove:failed">>]
    /\ UNCHANGED <<req, container, output, attach, streamPos, response>>
    /\ UNCHANGED runtimeVars

Next ==
    \/ \E r \in Requests, language \in Languages, code \in Codes : Receive(r, language, code)
    \/ \E r \in Requests : ListImagesFound(r)
    \/ \E r \in Requests : ListImagesEmpty(r)
    \/ \E r \in Requests, msg \in RuntimeErrors : ListImagesFail(r, msg)
    \/ \E r \in Requests : PullStream(r)
    \/ \E r \in Requests, msg \in RuntimeErrors : PullFail(r, msg)
    \/ \E r \in Requests : FollowProgressOk(r)
    \/ \E r \in Requests, msg \in RuntimeErrors : FollowProgressErr(r, msg)
    \/ \E r \in Requests, c \in ContainerIds : CreateOk(r, c)
    \/ \E r \in Requests, msg \in RuntimeErrors : CreateFail(r, msg)
    \/ \E r \in Requests : AttachOpen(r)
    \/ \E r \in Requests : AttachErr(r)
    \/ \E r \in Requests : Data(r)
    \/ \E r \in Requests : StartOk(r)
    \/ \E r \in Requests, msg \in RuntimeErrors : StartFail(r, msg)
    \/ \E c \in ContainerIds, chunk \in Chunks : Emit(c, chunk)
    \/ \E c \in ContainerIds, code \in {0, 1} : Exit(c, code)
    \/ \E r \in Requests : WaitExited(r)
    \/ \E r \in Requests, statusCode \in {Null, Undefined} : WaitNoStatus(r, statusCode)
    \/ \E r \in Requests, msg \in RuntimeErrors : WaitFail(r, msg)
    \/ \E r \in Requests : RemoveOk(r)
    \/ \E r \in Requests : RemoveFail(r)

Spec == Init /\ [][Next]_vars

\* ------------------------------------------- concurrent requests
\* NumRequests requests arrive and are handled with their awaits interleaved.
\* To keep the state space finite and small the requests are valid ones, both
\* images are present, and the containers emit MaxChunks chunks in total.
InitConc ==
    /\ pc = [r \in Requests |-> "idle"]
    /\ req = [r \in Requests |-> [language |-> Undefined, code |-> Undefined]]
    /\ container = [r \in Requests |-> NoContainer]
    /\ output = [r \in Requests |-> <<>>]
    /\ attach = [r \in Requests |-> "none"]
    /\ streamPos = [r \in Requests |-> 0]
    /\ response = [r \in Requests |-> NoResponse]
    /\ trace = [r \in Requests |-> <<>>]
    /\ images = {Str("python:3.9-slim"), Str("node:18-alpine")}
    /\ cstate = [c \in ContainerIds |-> "absent"]
    /\ exitCode = [c \in ContainerIds |-> 0]
    /\ emitted = [c \in ContainerIds |-> <<>>]

RECURSIVE SumEmitted(_)
SumEmitted(S) ==
    IF S = {} THEN 0
    ELSE LET c == CHOOSE x \in S : TRUE IN Len(emitted[c]) + SumEmitted(S \ {c})

NextConc ==
    \/ \E r \in Requests, language \in {Str("python"), Str("javascript")} :
          Receive(r, language, Str("print(1)"))
    \/ \E r \in Requests : ListImagesFound(r)
    \/ \E r \in Requests, c \in ContainerIds : CreateOk(r, c)
    \/ \E r \in Requests : AttachOpen(r)
    \/ \E r \in Requests : AttachErr(r)
    \/ \E r \in Requests : Data(r)
    \/ \E r \in Requests : StartOk(r)
    \/ \E r \in Requests : StartFail(r, "docker error")
    \/ \E c \in ContainerIds, chunk \in Chunks :
          SumEmitted(ContainerIds) < MaxChunks /\ Emit(c, chunk)
    \/ \E c \in ContainerIds : Exit(c, 0)
    \/ \E r \in Requests : WaitExited(r)
    \/ \E r \in Requests : WaitNoStatus(r, Null)
    \/ \E r \in Requests : RemoveOk(r)
    \/ \E r \in Requests : RemoveFail(r)

SpecConc == InitConc /\ [][NextConc]_vars

\* ------------------------------------------------------------- claims
Received(r) == pc[r] \notin {"idle", "unused"}
Has(r, event) == \E i \in DOMAIN trace[r] : trace[r][i] = event
Count(r, events) == Cardinality({i \in DOMAIN trace[r] : trace[r][i] \in events})
Before(r, first, second) ==
    \E i, j \in DOMAIN trace[r] : i < j /\ trace[r][i] \in first /\ trace[r][j] \in second
RespondEvents == {"respond:200", "respond:400", "respond:500"}

\* C1: once the handler of a request has finished, a container created for
\* that request is no longer in the runtime's container list; stated for the
\* case the claim singles out, a run that timed out, whose container may still
\* be running when remove() is called.
C1_NoContainerOutlivesRequest ==
    \A r \in Requests :
        (pc[r] = "done" /\ container[r] # NoContainer /\ Has(r, "wait:null")) =>
            container[r] \notin ContainerList

C2_State ==
    \A r \in Requests :
        /\ Count(r, RespondEvents) <= 1
        /\ Count(r, {"remove:call"}) <= 1
        /\ Count(r, {"remove:call"}) = 1 <=> (container[r] # NoContainer /\ pc[r] \in {"remove", "done"})
        /\ Has(r, "remove:call") =>
              /\ Before(r, {"respond:200", "respond:500"}, {"remove:call"})
              /\ response[r].status \in {200, 500}
        /\ Count(r, RespondEvents) = 1 <=> response[r].status # 0

\* C2: when createContainer succeeded, remove() is called exactly once by the
\* time the handler finishes, only after the response (200 or 500) was sent;
\* one response is sent at most, and once sent it never changes, also when
\* remove() fails.
C2_RemoveOnceAfterResponse ==
    [][/\ C2_State'
       /\ \A r \in Requests : response[r].status # 0 => response'[r] = response[r]]_vars

C2_Witness ==
    \E r \in Requests :
        /\ pc[r] = "done"
        /\ Has(r, "wait:null")
        /\ Has(r, "remove:failed")
        /\ response[r] = ErrorResponse(500, "Execution timed out.")

\* C3: a request whose body lacks language or lacks code is answered 400 with
\* an error payload.
C3_MissingFields400 ==
    \A r \in Requests :
        (Received(r) /\ (req[r].language = Undefined \/ req[r].code = Undefined)) =>
            (response[r].status = 400 /\ response[r].error # "")

C3_Witness ==
    \E r \in Requests :
        /\ req[r].language = Str("python")
        /\ req[r].code = Undefined
        /\ response[r] = ErrorResponse(400, "Language and code are required.")

\* C4: the response to a request that supplies a language other than the
\* strings python and javascript is a 400.
C4_UnsupportedLanguage400 ==
    \A r \in Requests :
        (/\ response[r].status # 0
         /\ req[r].language # Undefined
         /\ req[r].language \notin {Str("python"), Str("javascript")}) =>
            response[r].status = 400

\* C5: when a step of the chain (list, pull, create, attach, start, wait)
\* failed before the response was sent, the response is a 500 with a message;
\* stated for the runs whose wait, if it returned, returned an exit status or
\* null.
FailEvents ==
    {"list:failed", "pull:failed", "create:failed", "attach:failed", "start:failed",
     "wait:failed"}

C5_FailureMeans500 ==
    \A r \in Requests :
        (Before(r, FailEvents, RespondEvents) /\ ~Has(r, "wait:absent")) =>
            (response[r].status = 500 /\ response[r].error # "")

\* C6: a wait result whose exit status is null or absent is answered 500
\* 'Execution timed out.'.
C6_NoStatusMeansTimeout ==
    \A r \in Requests :
        (Has(r, "wait:null") \/ Has(r, "wait:absent")) =>
            response[r] = ErrorResponse(500, "Execution timed out.")

\* C7: the 200 response of a run that exited carries the trimmed concatenation
\* of every chunk the container emitted; stated for the runs whose attach did
\* not fail.
C7_AllOutputReturned ==
    \A r \in Requests :
        (/\ response[r].status = 200
         /\ Has(r, "wait:exit0") \/ Has(r, "wait:exit1")
         /\ ~Has(r, "attach:failed")) =>
            response[r].output = Trim(Concat(emitted[container[r]]))

\* C8: with requests interleaved, a request's output buffer and response hold
\* only chunks its own container emitted, no two requests hold the same
\* container, and a container is removed only by the request that created it.
Stretches(c) ==
    {Concat(SubSeq(emitted[c], i, j)) : i \in 1..(Len(emitted[c]) + 1), j \in 0..Len(emitted[c])}

C8_NoInterference ==
    /\ \A r \in Requests :
          IF container[r] = NoContainer
          THEN output[r] = <<>> /\ response[r].output = <<>>
          ELSE /\ output[r] \in Stretches(container[r])
               /\ response[r].output \in {Trim(s) : s \in Stretches(container[r])}
    /\ \A r, q \in Requests :
          (r # q /\ container[r] # NoContainer) => container[r] # container[q]
    /\ \A c \in ContainerIds :
          cstate[c] = "removed" =>
              \E r \in Requests : container[r] = c /\ Has(r, "remove:ok")
    /\ \A r \in Requests :
          Has(r, "remove:ok") => cstate[container[r]] = "removed"

C8_Witness ==
    /\ \A r \in Requests : pc[r] = "done" /\ response[r].status = 200
    /\ \A c \in ContainerIds : cstate[c] = "removed"
    /\ \E r, q \in Requests :
          /\ response[r].output = <<"a">>
          /\ response[q].output = <<>>
          /\ emitted[container[q]] = <<>>

\* C9: createContainer is called only right after listImages found the image
\* (and then nothing was pulled) or after a pull that followed an empty listing
\* completed; after a failed listing or pull it is never called; and a named
\* image is then present in the runtime.
C9_ImagePresentBeforeCreate ==
    \A r \in Requests :
        /\ \A i \in DOMAIN trace[r] :
              trace[r][i] = "create:call" =>
                  /\ i > 1
                  /\ \/ trace[r][i - 1] = "list:found" /\ ~Has(r, "pull:call")
                     \/ /\ trace[r][i - 1] = "pull:done"
                        /\ Before(r, {"list:empty"}, {"pull:done"})
        /\ (Has(r, "list:failed") \/ Has(r, "pull:failed")) => ~Has(r, "create:call")
        /\ (Has(r, "create:call") /\ NamesImage(ImageName(r))) => ImageName(r) \in images

C9_Witness ==
    \E r \in Requests :
        /\ Has(r, "list:empty")
        /\ Has(r, "pull:done")
        /\ Has(r, "create:ok")
        /\ ImageName(r) \in images

\* C10: when wait returns the exit status of the container, zero or not, the
\* response is 200 with the trimmed output captured so far.
ExitEvents == {"wait:exit0", "wait:exit1"}

C10_AnyExitStatusIs200 ==
    [][\A r \in Requests :
          (Count(r, ExitEvents) = 0 /\ Count(r, ExitEvents)' = 1) =>
              /\ response'[r] = OutputResponse(Trim(output[r]))
              /\ Has(r, "respond:200")']_vars

C10_Witness ==
    \E r \in Requests :
        /\ Has(r, "wait:exit1")
        /\ response[r] = OutputResponse(<<"a">>)

====
